---- MODULE Spec2Model ----
(***************************************************************************)
(* swayctrl: the focus-history daemon, its most-recently-used window list  *)
(* (windowMRUList) and the query handler that serves snapshots of it.      *)
(*                                                                         *)
(* The list is modelled as the Go code builds it: mruElt objects on a heap *)
(* (elts), linked by prev/next pointers, a head pointer and the index map  *)
(* m from window id to element.                                            *)
(***************************************************************************)
EXTENDS Integers, Sequences, FiniteSets, TLC

\* ------------------------------------------------------------------ bounds
\* Window ids used by the calls of the list-level specification.
MaxId == 3
\* Window ids used by the events of the daemon specification.
MaxWin == 2
\* Number of concurrent query handler goroutines.
NumQueries == 1
\* Number of daemon processes that may be started side by side.
NumDaemons == 3
\* Number of node ids of the sway trees; match and MRU lists are shorter.
MaxNode == 4
\* Number of consecutive runs of prev against the daemon.
MaxPrev == 2

\* The cap of all(): more than MaxAll visited elements make it panic.
MaxAll == 100

Ids == 1..MaxId
WinIds == 1..MaxWin
Handlers == 1..NumQueries
\* App ids passed to bringFront in the list-level specification.
AppIDs == {"?", "a"}

\* The nil pointer; element addresses are positive.
NIL == 0

VARIABLES
    list,     \* windowMRUList and the mruElt objects: [head, m, elts]
    call,     \* the last call made on the list: [op, id, appID, was]
    before,   \* the list as it was before that call
    ret,      \* what the last call returned: all()'s [panicked, nodes]
    live,     \* history: ids brought to front and not deleted afterwards
    abs,      \* history: the abstract sequence model, most recent first
    gone,     \* history: ids deleted and not brought to front since
    mu,       \* daemonHandler.mu: 0 when free, else the handler holding it
    verbose,  \* daemonHandler.verbose
    daemon,   \* "running", or "crashed" after a panic in the event goroutine
    ev,       \* the window event the listener is delivering: [kind, id, appID]
    qpc,      \* per query handler: its position in handle
    qst,      \* per query handler: the loop state of its all() call
    nodes,    \* per query handler: the local variable nodes
    resp,     \* per query handler: the response body written
    hist,     \* history: list contents seen while the handler ran all()
    taken,    \* history: list contents when the handler released the mutex
    focusApp, \* history: per id, the AppID of its latest focus event
    dpc,      \* per daemon process: its position in cmdDaemon
    dexit,    \* per daemon process: how its last run ended
    flock,    \* the flock on swayctrl.lock: 0 when free, else its holder
    sock,     \* the process listening at swayctrl.sock, 0 when none
    touched,  \* history: the processes whose run removed or bound the socket
    cin,      \* the inputs of a command run (tree, MRU list, matches)
    cout      \* what the command run did

listVars == <<list, call, before, ret, live, abs, gone>>
daemonVars == <<mu, verbose, daemon, ev, qpc, qst, nodes, resp, hist, taken>>
procVars == <<dpc, dexit, flock, sock, touched>>
cliVars == <<cin, cout>>
vars == <<list, call, before, ret, live, abs, gone,
          mu, verbose, daemon, ev, qpc, qst, nodes, resp, hist, taken,
          focusApp, dpc, dexit, flock, sock, touched, cin, cout>>
\* What the list and the running daemon leave alone.
restVars == <<focusApp, dpc, dexit, flock, sock, touched, cin, cout>>

\* ---------------------------------------------------------- windowMRUList

\* newDaemonHandler: head is nil, m is an empty map, no element allocated.
EmptyList == [head |-> NIL, m |-> <<>>, elts |-> <<>>]

\* &mruElt{id: id}: a fresh object at an address not in use (the id's own
\* number when that is free, else the lowest free one).
NewElt(l, id) ==
    IF id \notin DOMAIN l.elts THEN id
    ELSE CHOOSE a \in 1..(Cardinality(DOMAIN l.elts) + 1) : a \notin DOMAIN l.elts

\* Elements reachable from the roots through prev and next.
RECURSIVE Reach(_, _)
Reach(l, seen) ==
    LET nxt == seen \cup
               { p \in { l.elts[a].prev : a \in seen } \cup
                       { l.elts[a].next : a \in seen } : p # NIL }
    IN IF nxt = seen THEN seen ELSE Reach(l, nxt)

\* The Go runtime frees every element no pointer leads to; roots are the
\* pointers held outside the list (loop variables of running all() calls).
Collect(l, roots) ==
    LET r0 == { a \in ({l.head} \cup { l.m[k] : k \in DOMAIN l.m } \cup roots) :
                  a # NIL }
        keep == Reach(l, r0)
    IN [l EXCEPT !.elts = [a \in keep |-> l.elts[a]]]

\* bringFront with the unlink of the predecessor (e.prev.next = e.next) left
\* out.
bringFront_KeepPrevLink(l, id, appID) ==
    LET ok == id \in DOMAIN l.m
        e == IF ok THEN l.m[id] ELSE NewElt(l, id)
        l1 == IF ok THEN l
              ELSE [l EXCEPT
                      !.elts = (e :> [prev |-> NIL, next |-> NIL,
                                      id |-> id, appID |-> ""]) @@ @,
                      !.m = (id :> e) @@ @]
        l2 == [l1 EXCEPT !.elts[e].appID = appID]
    IN IF l2.head = e THEN l2
       ELSE
         LET l4 == IF l2.elts[e].next # NIL
                   THEN [l2 EXCEPT !.elts[l2.elts[e].next].prev = l2.elts[e].prev]
                   ELSE l2
             l5 == [l4 EXCEPT !.elts[e].prev = NIL]
             l6 == [l5 EXCEPT !.elts[e].next = l5.head]
             l7 == IF l6.elts[e].next # NIL
                   THEN [l6 EXCEPT !.elts[l6.elts[e].next].prev = e]
                   ELSE l6
         IN [l7 EXCEPT !.head = e]

\* bringFront with the unlink of the successor (e.next.prev = e.prev) left
\* out.
bringFront_KeepNextLink(l, id, appID) ==
    LET ok == id \in DOMAIN l.m
        e == IF ok THEN l.m[id] ELSE NewElt(l, id)
        l1 == IF ok THEN l
              ELSE [l EXCEPT
                      !.elts = (e :> [prev |-> NIL, next |-> NIL,
                                      id |-> id, appID |-> ""]) @@ @,
                      !.m = (id :> e) @@ @]
        l2 == [l1 EXCEPT !.elts[e].appID = appID]
    IN IF l2.head = e THEN l2
       ELSE
         LET l3 == IF l2.elts[e].prev # NIL
                   THEN [l2 EXCEPT !.elts[l2.elts[e].prev].next = l2.elts[e].next]
                   ELSE l2
             l5 == [l3 EXCEPT !.elts[e].prev = NIL]
             l6 == [l5 EXCEPT !.elts[e].next = l5.head]
             l7 == IF l6.elts[e].next # NIL
                   THEN [l6 EXCEPT !.elts[l6.elts[e].next].prev = e]
                   ELSE l6
         IN [l7 EXCEPT !.head = e]

\* bringFront without the early return for the element already at the head.
bringFront_NoHeadCheck(l, id, appID) ==
    LET ok == id \in DOMAIN l.m
        e == IF ok THEN l.m[id] ELSE NewElt(l, id)
        l1 == IF ok THEN l
              ELSE [l EXCEPT
                      !.elts = (e :> [prev |-> NIL, next |-> NIL,
                                      id |-> id, appID |-> ""]) @@ @,
                      !.m = (id :> e) @@ @]
        l2 == [l1 EXCEPT !.elts[e].appID = appID]
        l3 == IF l2.elts[e].prev # NIL
              THEN [l2 EXCEPT !.elts[l2.elts[e].prev].next = l2.elts[e].next]
              ELSE l2
        l4 == IF l3.elts[e].next # NIL
              THEN [l3 EXCEPT !.elts[l3.elts[e].next].prev = l3.elts[e].prev]
              ELSE l3
        l5 == [l4 EXCEPT !.elts[e].prev = NIL]
        l6 == [l5 EXCEPT !.elts[e].next = l5.head]
        l7 == IF l6.elts[e].next # NIL
              THEN [l6 EXCEPT !.elts[l6.elts[e].next].prev = e]
              ELSE l6
    IN [l7 EXCEPT !.head = e]

\* bringFront that sets the app id only of a record it creates.
bringFront_AppIDOnInsert(l, id, appID) ==
    LET ok == id \in DOMAIN l.m
        e == IF ok THEN l.m[id] ELSE NewElt(l, id)
        l1 == IF ok THEN l
              ELSE [l EXCEPT
                      !.elts = (e :> [prev |-> NIL, next |-> NIL,
                                      id |-> id, appID |-> ""]) @@ @,
                      !.m = (id :> e) @@ @]
        l2 == IF ok THEN l1 ELSE [l1 EXCEPT !.elts[e].appID = appID]
    IN IF l2.head = e THEN l2
       ELSE
         LET l3 == IF l2.elts[e].prev # NIL
                   THEN [l2 EXCEPT !.elts[l2.elts[e].prev].next = l2.elts[e].next]
                   ELSE l2
             l4 == IF l3.elts[e].next # NIL
                   THEN [l3 EXCEPT !.elts[l3.elts[e].next].prev = l3.elts[e].prev]
                   ELSE l3
             l5 == [l4 EXCEPT !.elts[e].prev = NIL]
             l6 == [l5 EXCEPT !.elts[e].next = l5.head]
             l7 == IF l6.elts[e].next # NIL
                   THEN [l6 EXCEPT !.elts[l6.elts[e].next].prev = e]
                   ELSE l6
         IN [l7 EXCEPT !.head = e]

bringFront(l, id, appID) ==
    LET ok == id \in DOMAIN l.m
        e == IF ok THEN l.m[id] ELSE NewElt(l, id)
        l1 == IF ok THEN l
              ELSE [l EXCEPT
                      !.elts = (e :> [prev |-> NIL, next |-> NIL,
                                      id |-> id, appID |-> ""]) @@ @,
                      !.m = (id :> e) @@ @]
        l2 == [l1 EXCEPT !.elts[e].appID = appID]
    IN IF l2.head = e THEN l2
       ELSE
         LET l3 == IF l2.elts[e].prev # NIL
                   THEN [l2 EXCEPT !.elts[l2.elts[e].prev].next = l2.elts[e].next]
                   ELSE l2
             l4 == IF l3.elts[e].next # NIL
                   THEN [l3 EXCEPT !.elts[l3.elts[e].next].prev = l3.elts[e].prev]
                   ELSE l3
             l5 == [l4 EXCEPT !.elts[e].prev = NIL]
             l6 == [l5 EXCEPT !.elts[e].next = l5.head]
             l7 == IF l6.elts[e].next # NIL
                   THEN [l6 EXCEPT !.elts[l6.elts[e].next].prev = e]
                   ELSE l6
         IN [l7 EXCEPT !.head = e]

\* delete with the removal from the index (delete(l.m, id)) left out.
delete_KeepIndex(l, id) ==
    IF id \notin DOMAIN l.m THEN l
    ELSE
      LET e == l.m[id]
          l2 == IF l.elts[e].prev # NIL
                THEN [l EXCEPT !.elts[l.elts[e].prev].next = l.elts[e].next]
                ELSE l
          l3 == IF l2.elts[e].next # NIL
                THEN [l2 EXCEPT !.elts[l2.elts[e].next].prev = l2.elts[e].prev]
                ELSE l2
      IN IF l3.head = e THEN [l3 EXCEPT !.head = l3.elts[e].next] ELSE l3

\* delete that, for an id the index does not hold, takes the head element
\* instead of returning.
delete_HeadWhenMissing(l, id) ==
    IF id \notin DOMAIN l.m /\ l.head = NIL THEN l
    ELSE
      LET e == IF id \in DOMAIN l.m THEN l.m[id] ELSE l.head
          l1 == [l EXCEPT !.m = [k \in DOMAIN l.m \ {l.elts[e].id} |-> l.m[k]]]
          l2 == IF l1.elts[e].prev # NIL
                THEN [l1 EXCEPT !.elts[l1.elts[e].prev].next = l1.elts[e].next]
                ELSE l1
          l3 == IF l2.elts[e].next # NIL
                THEN [l2 EXCEPT !.elts[l2.elts[e].next].prev = l2.elts[e].prev]
                ELSE l2
      IN IF l3.head = e THEN [l3 EXCEPT !.head = l3.elts[e].next] ELSE l3

delete(l, id) ==
    IF id \notin DOMAIN l.m THEN l
    ELSE
      LET e == l.m[id]
          l1 == [l EXCEPT !.m = [k \in DOMAIN l.m \ {id} |-> l.m[k]]]
          l2 == IF l1.elts[e].prev # NIL
                THEN [l1 EXCEPT !.elts[l1.elts[e].prev].next = l1.elts[e].next]
                ELSE l1
          l3 == IF l2.elts[e].next # NIL
                THEN [l2 EXCEPT !.elts[l2.elts[e].next].prev = l2.elts[e].prev]
                ELSE l2
      IN IF l3.head = e THEN [l3 EXCEPT !.head = l3.elts[e].next] ELSE l3

\* all(): the loop state is [e, i, nodes, at]; at is "loop" while the loop
\* runs, "return" once e is nil, "panic" once i exceeds MaxAll.
allInit(l) == [e |-> l.head, i |-> 0, nodes |-> <<>>, at |-> "loop"]

\* One evaluation of the loop condition and, if it holds, of the loop body.
allStep(l, st) ==
    IF st.e = NIL THEN [st EXCEPT !.at = "return"]
    ELSE IF st.i + 1 > MaxAll THEN [st EXCEPT !.i = @ + 1, !.at = "panic"]
    ELSE [st EXCEPT !.i = @ + 1,
                    !.nodes = Append(@, [ID |-> l.elts[st.e].id,
                                         AppID |-> l.elts[st.e].appID]),
                    !.e = l.elts[st.e].next]

RECURSIVE allRun(_, _)
allRun(l, st) == IF st.at # "loop" THEN st ELSE allRun(l, allStep(l, st))

all(l) ==
    LET st == allRun(l, allInit(l))
    IN [panicked |-> st.at = "panic",
        nodes |-> IF st.at = "panic" THEN <<>> ELSE st.nodes]

\* ------------------------------------------------------------ history

\* The abstract model of the list: a sequence of ids, most recent first.
Without(s, id) == SelectSeq(s, LAMBDA x : x # id)
absBringFront(s, id) == <<id>> \o Without(s, id)
absDelete(s, id) == Without(s, id)

\* What the history says of an id when a call names it.
Was(id) == IF id \in live THEN "live"
           ELSE IF id \in gone THEN "deleted" ELSE "never"

NoCall == [op |-> "none", id |-> 0, appID |-> "", was |-> "never"]
NoRet == [panicked |-> FALSE, nodes |-> <<>>]

\* A *string: nil, or a pointer to val.
NilStr == [isNil |-> TRUE, val |-> ""]
Ptr(v) == [isNil |-> FALSE, val |-> v]

\* No window event is being delivered.
NoEvent == [kind |-> "none", id |-> 0, appID |-> NilStr]

\* Nothing has been written to the response.
NoResp == [written |-> FALSE, null |-> FALSE, items |-> <<>>]

\* json.NewEncoder(w).Encode(nodes): a nil slice (all() appended nothing) is
\* written as null, any other as the array of its {ID, AppID} objects.
Encode(ns) ==
    IF Len(ns) = 0 THEN [written |-> TRUE, null |-> TRUE, items |-> <<>>]
    ELSE [written |-> TRUE, null |-> FALSE,
          items |-> [i \in 1..Len(ns) |-> [ID |-> ns[i].ID, AppID |-> ns[i].AppID]]]

\* ------------------------------------------------- list-level operations

InitList ==
    /\ list = EmptyList
    /\ call = NoCall
    /\ before = EmptyList
    /\ ret = NoRet
    /\ live = {}
    /\ abs = <<>>
    /\ gone = {}

InitDaemon ==
    /\ mu = 0
    /\ verbose \in BOOLEAN
    /\ daemon = "running"
    /\ ev = NoEvent
    /\ qpc = [h \in Handlers |-> "idle"]
    /\ qst = [h \in Handlers |-> allInit(EmptyList)]
    /\ nodes = [h \in Handlers |-> <<>>]
    /\ resp = [h \in Handlers |-> NoResp]
    /\ hist = [h \in Handlers |-> {}]
    /\ taken = [h \in Handlers |-> <<>>]

\* One daemon process, which holds the lock and listens; no command runs.
InitRest ==
    /\ focusApp = <<>>
    /\ dpc = <<"subscribe">>
    /\ dexit = <<"none">>
    /\ flock = 1
    /\ sock = 1
    /\ touched = {1}
    /\ cin = <<>>
    /\ cout = <<>>

Init == InitList /\ InitDaemon /\ InitRest

\* The daemon started without -v.
InitQuiet == InitList /\ InitDaemon /\ InitRest /\ verbose = FALSE

CallBringFront(id, appID) ==
    /\ before' = list
    /\ call' = [op |-> "bringFront", id |-> id, appID |-> appID,
                 was |-> Was(id)]
    /\ list' = Collect(bringFront(list, id, appID), {})
    /\ live' = live \cup {id}
    /\ gone' = gone \ {id}
    /\ abs' = absBringFront(abs, id)
    /\ ret' = NoRet

CallDelete(id) ==
    /\ before' = list
    /\ call' = [op |-> "delete", id |-> id, appID |-> "", was |-> Was(id)]
    /\ list' = Collect(delete(list, id), {})
    /\ live' = live \ {id}
    /\ gone' = IF id \in live THEN gone \cup {id} ELSE gone
    /\ abs' = absDelete(abs, id)
    /\ ret' = NoRet

CallAll ==
    /\ before' = list
    /\ call' = [op |-> "all", id |-> 0, appID |-> "", was |-> "never"]
    /\ ret' = all(list)
    /\ UNCHANGED <<list, live, abs, gone>>

NextList ==
    \/ \E id \in Ids, appID \in AppIDs :
         CallBringFront(id, appID) /\ UNCHANGED daemonVars /\ UNCHANGED restVars
    \/ \E id \in Ids : CallDelete(id) /\ UNCHANGED daemonVars /\ UNCHANGED restVars
    \/ CallAll /\ UNCHANGED daemonVars /\ UNCHANGED restVars

\* Calls of bringFront, delete and all in any order on an empty list.
SpecList == InitQuiet /\ [][NextList]_vars

\* Calls that fill the list with new windows: each bringFront names the next
\* id never used before, up to one more than all() can visit.
FillBringFront ==
    /\ Cardinality(DOMAIN list.m) <= MaxAll
    /\ CallBringFront(Cardinality(DOMAIN list.m) + 1, "a")

NextFill ==
    \/ FillBringFront /\ UNCHANGED daemonVars /\ UNCHANGED restVars
    \/ CallAll /\ UNCHANGED daemonVars /\ UNCHANGED restVars

SpecFill == InitQuiet /\ [][NextFill]_vars

\* ------------------------------------------------------- the daemon

\* The records in list order, head first, however long the list is.
RECURSIVE ContentFrom(_, _, _)
ContentFrom(l, e, seen) ==
    IF e = NIL \/ e \in seen \/ e \notin DOMAIN l.elts THEN <<>>
    ELSE <<[ID |-> l.elts[e].id, AppID |-> l.elts[e].appID]>>
         \o ContentFrom(l, l.elts[e].next, seen \cup {e})

Contents(l) == ContentFrom(l, l.head, {})

\* The loop variables e of the all() calls in progress.
Cursors == { qst[h].e : h \in { k \in Handlers : qpc[k] = "all" } }

\* sway.Subscribe hands the next window event to Window, which then waits
\* for the mutex.
Arrive(e) ==
    /\ daemon = "running"
    /\ ev = NoEvent
    /\ ev' = e
    /\ UNCHANGED <<mu, verbose, daemon, qpc, qst, nodes, resp, hist, taken>>
    /\ UNCHANGED listVars

\* Window whose switch handles every kind but focus as a close.
Window_DefaultDeletes(l, e) ==
    IF e.kind = "focus"
    THEN bringFront(l, e.id,
                    IF ~e.appID.isNil /\ e.appID.val # "" THEN e.appID.val
                    ELSE "?")
    ELSE delete(l, e.id)

\* What Window does to the list for the event e.
Window(l, e) ==
    IF e.kind = "focus"
    THEN bringFront(l, e.id,
                    IF ~e.appID.isNil /\ e.appID.val # "" THEN e.appID.val
                    ELSE "?")
    ELSE IF e.kind = "close" THEN delete(l, e.id)
    ELSE l

\* Window without h.mu.Lock() and the deferred Unlock.
WindowBody_NoLock ==
    /\ daemon = "running"
    /\ ev # NoEvent
    /\ list' = Collect(Window(list, ev), Cursors)
    /\ daemon' = IF /\ ev.kind \in {"focus", "close"}
                    /\ verbose
                    /\ all(Window(list, ev)).panicked
                 THEN "crashed" ELSE "running"
    /\ ev' = NoEvent
    /\ hist' = [h \in Handlers |->
                  IF qpc[h] = "all" THEN hist[h] \cup {Contents(list')}
                  ELSE hist[h]]
    /\ UNCHANGED <<mu, verbose, qpc, qst, nodes, resp, taken>>
    /\ UNCHANGED <<call, before, ret, live, abs, gone>>

\* Window, from the moment it gets the mutex to its deferred Unlock. In
\* verbose mode it logs all(), whose panic ends the event goroutine and with
\* it the process.
WindowBody ==
    /\ daemon = "running"
    /\ ev # NoEvent
    /\ mu = 0
    /\ list' = Collect(Window(list, ev), Cursors)
    /\ daemon' = IF /\ ev.kind \in {"focus", "close"}
                    /\ verbose
                    /\ all(Window(list, ev)).panicked
                 THEN "crashed" ELSE "running"
    /\ ev' = NoEvent
    /\ hist' = [h \in Handlers |->
                  IF qpc[h] = "all" THEN hist[h] \cup {Contents(list')}
                  ELSE hist[h]]
    /\ UNCHANGED <<mu, verbose, qpc, qst, nodes, resp, taken>>
    /\ UNCHANGED <<call, before, ret, live, abs, gone>>

\* http.Serve starts a goroutine running handle for a request.
QueryStart(h) ==
    /\ daemon = "running"
    /\ qpc[h] = "idle"
    /\ qpc' = [qpc EXCEPT ![h] = "lock"]
    /\ nodes' = [nodes EXCEPT ![h] = <<>>]
    /\ resp' = [resp EXCEPT ![h] = NoResp]
    /\ hist' = [hist EXCEPT ![h] = {}]
    /\ taken' = [taken EXCEPT ![h] = <<>>]
    /\ UNCHANGED <<mu, verbose, daemon, ev, qst>>
    /\ UNCHANGED listVars

\* h.mu.Lock() returns; all() starts at the head.
QueryLock(h) ==
    /\ daemon = "running"
    /\ qpc[h] = "lock"
    /\ mu = 0
    /\ mu' = h
    /\ qpc' = [qpc EXCEPT ![h] = "all"]
    /\ qst' = [qst EXCEPT ![h] = allInit(list)]
    /\ hist' = [hist EXCEPT ![h] = {Contents(list)}]
    /\ UNCHANGED <<verbose, daemon, ev, nodes, resp, taken>>
    /\ UNCHANGED listVars

\* One turn of the loop of all(). When the loop ends, nodes is assigned; a
\* panic leaves handle without reaching h.mu.Unlock(), and net/http recovers
\* it, ending the handler's goroutine only.
QueryAllStep(h) ==
    /\ daemon = "running"
    /\ qpc[h] = "all"
    /\ LET st == allStep(list, qst[h])
       IN /\ qst' = [qst EXCEPT ![h] = st]
          /\ qpc' = [qpc EXCEPT ![h] = IF st.at = "return" THEN "unlock"
                                       ELSE IF st.at = "panic" THEN "panicked"
                                       ELSE "all"]
          /\ nodes' = [nodes EXCEPT ![h] = IF st.at = "return" THEN st.nodes
                                           ELSE @]
    /\ UNCHANGED <<mu, verbose, daemon, ev, resp, hist, taken>>
    /\ UNCHANGED listVars

\* handle with the Unlock deferred to its return: the mutex stays held
\* while the response is encoded and written.
QueryUnlock_Deferred(h) ==
    /\ daemon = "running"
    /\ qpc[h] = "unlock"
    /\ qpc' = [qpc EXCEPT ![h] = "encode"]
    /\ taken' = [taken EXCEPT ![h] = Contents(list)]
    /\ UNCHANGED <<mu, verbose, daemon, ev, qst, nodes, resp, hist>>
    /\ UNCHANGED listVars

\* h.mu.Unlock()
QueryUnlock(h) ==
    /\ daemon = "running"
    /\ qpc[h] = "unlock"
    /\ mu' = 0
    /\ qpc' = [qpc EXCEPT ![h] = "encode"]
    /\ taken' = [taken EXCEPT ![h] = Contents(list)]
    /\ UNCHANGED <<verbose, daemon, ev, qst, nodes, resp, hist>>
    /\ UNCHANGED listVars

\* The header is set and the encoded nodes are written to the connection.
QueryEncode(h) ==
    /\ daemon = "running"
    /\ qpc[h] = "encode"
    /\ resp' = [resp EXCEPT ![h] = Encode(nodes[h])]
    /\ qpc' = [qpc EXCEPT ![h] = "sent"]
    /\ UNCHANGED <<mu, verbose, daemon, ev, qst, nodes, hist, taken>>
    /\ UNCHANGED listVars

\* handle returns; the goroutine is free for the next request.
QueryDone(h) ==
    /\ daemon = "running"
    /\ qpc[h] = "sent"
    /\ qpc' = [qpc EXCEPT ![h] = "idle"]
    /\ qst' = [qst EXCEPT ![h] = allInit(EmptyList)]
    /\ nodes' = [nodes EXCEPT ![h] = <<>>]
    /\ resp' = [resp EXCEPT ![h] = NoResp]
    /\ hist' = [hist EXCEPT ![h] = {}]
    /\ taken' = [taken EXCEPT ![h] = <<>>]
    /\ UNCHANGED <<mu, verbose, daemon, ev>>
    /\ UNCHANGED listVars

\* The window events of the daemon specification.
Events ==
    { [kind |-> k, id |-> id, appID |-> Ptr("a")] :
        k \in {"focus", "close", "title"}, id \in WinIds }

Next ==
    \/ \E e \in Events : Arrive(e) /\ UNCHANGED restVars
    \/ WindowBody /\ UNCHANGED restVars
    \/ \E h \in Handlers : QueryStart(h) /\ UNCHANGED restVars
    \/ \E h \in Handlers : QueryLock(h) /\ UNCHANGED restVars
    \/ \E h \in Handlers : QueryAllStep(h) /\ UNCHANGED restVars
    \/ \E h \in Handlers : QueryUnlock(h) /\ UNCHANGED restVars
    \/ \E h \in Handlers : QueryEncode(h) /\ UNCHANGED restVars
    \/ \E h \in Handlers : QueryDone(h) /\ UNCHANGED restVars

\* The running daemon: the event listener and the query handlers.
Spec == Init /\ [][Next]_vars

\* The daemon while the windows pile up: every focus event is for a new
\* window (the next id never used), title events come at any time, and the
\* requests come once the list holds MaxAll entries or more.
FillEvents ==
    { [kind |-> "focus", id |-> Cardinality(DOMAIN list.m) + 1,
       appID |-> Ptr("a")] : x \in { y \in {1} : Cardinality(DOMAIN list.m) <= MaxAll } }
    \cup { [kind |-> "title", id |-> 1, appID |-> Ptr("a")] }

FillQueryStart(h) ==
    /\ Cardinality(DOMAIN list.m) >= MaxAll
    /\ QueryStart(h)

NextDaemonFill ==
    \/ \E e \in FillEvents : Arrive(e) /\ UNCHANGED restVars
    \/ WindowBody /\ UNCHANGED restVars
    \/ \E h \in Handlers : FillQueryStart(h) /\ UNCHANGED restVars
    \/ \E h \in Handlers : QueryLock(h) /\ UNCHANGED restVars
    \/ \E h \in Handlers : QueryAllStep(h) /\ UNCHANGED restVars
    \/ \E h \in Handlers : QueryUnlock(h) /\ UNCHANGED restVars
    \/ \E h \in Handlers : QueryEncode(h) /\ UNCHANGED restVars
    \/ \E h \in Handlers : QueryDone(h) /\ UNCHANGED restVars

SpecDaemonFill == Init /\ [][NextDaemonFill]_vars

\* ------------------------------------------- reading the linked structure

\* The elements met from e by following next, up to nil or to a revisit.
RECURSIVE ChainFrom(_, _, _)
ChainFrom(l, e, seen) ==
    IF e = NIL \/ e \in seen \/ e \notin DOMAIN l.elts THEN <<>>
    ELSE <<e>> \o ChainFrom(l, l.elts[e].next, seen \cup {e})

Chain(l) == ChainFrom(l, l.head, {})

\* The walk from head ends at a nil next pointer: the chain is finite.
EndsInNil(l) ==
    IF l.head = NIL THEN TRUE
    ELSE Len(Chain(l)) > 0 /\ l.elts[Chain(l)[Len(Chain(l))]].next = NIL

\* The ids in list order, head first.
Order(l) == [i \in 1..Len(Chain(l)) |-> l.elts[Chain(l)[i]].id]

\* The records in list order, head first.
Content(l) ==
    [i \in 1..Len(Chain(l)) |->
        [ID |-> l.elts[Chain(l)[i]].id, AppID |-> l.elts[Chain(l)[i]].appID]]

SeqIds(ns) == [i \in 1..Len(ns) |-> ns[i].ID]
NoDup(s) == \A i, j \in 1..Len(s) : i # j => s[i] # s[j]
Range(s) == { s[i] : i \in 1..Len(s) }

\* ------------------------------------------------- the singleton lock

\* The swayctrl daemon processes started by one user: they share
\* $XDG_RUNTIME_DIR, hence swayctrl.lock and swayctrl.sock.
Procs == 1..NumDaemons

\* How a run of cmdDaemon can end.
FatalExits == {"lock file error", "locked", "listen error",
               "subscription error", "serve error"}

\* The process p exits: the kernel closes its descriptors, which releases
\* the flock of its open lock file and closes its listener.
ProcessExit_KeepLock(fl, p) == fl

ProcessExit(fl, p) == IF fl = p THEN 0 ELSE fl

\* unix.Flock(fd, LOCK_EX|LOCK_NB) in lockFile: it never waits; it takes
\* the free lock and fails when another open file holds it.
lockFile_IgnoreError(fl, p) == [ok |-> TRUE, flock |-> IF fl = 0 THEN p ELSE fl]

lockFile(fl, p) ==
    IF fl = 0 THEN [ok |-> TRUE, flock |-> p]
    ELSE [ok |-> FALSE, flock |-> fl]

\* fileLock.unlock: Flock(LOCK_UN) and Close.
unlock(fl, p) == IF fl = p THEN 0 ELSE fl

InitProcs ==
    /\ dpc = [p \in Procs |-> "off"]
    /\ dexit = [p \in Procs |-> "none"]
    /\ flock = 0
    /\ sock = 0
    /\ touched = {}

\* log.Fatal: os.Exit(1), the deferred unlock does not run.
Fatal(p, why) ==
    /\ dpc' = [dpc EXCEPT ![p] = "off"]
    /\ dexit' = [dexit EXCEPT ![p] = why]
    /\ flock' = ProcessExit(flock, p)
    /\ sock' = IF sock = p THEN 0 ELSE sock

\* `swayctrl daemon` is started: cmdDaemon up to the call of lockFile.
DaemonStart(p) ==
    /\ dpc[p] = "off"
    /\ dpc' = [dpc EXCEPT ![p] = "lockFile"]
    /\ dexit' = [dexit EXCEPT ![p] = "none"]
    /\ touched' = touched \ {p}
    /\ UNCHANGED <<flock, sock>>

\* A cmdDaemon that calls handler.listen before lockFile: the socket file is
\* replaced whether or not the lock is free.
LockFile_ListenFirst(p) ==
    /\ dpc[p] = "lockFile"
    /\ touched' = touched \cup {p}
    /\ IF lockFile(flock, p).ok
       THEN /\ flock' = lockFile(flock, p).flock
            /\ dpc' = [dpc EXCEPT ![p] = "subscribe"]
            /\ sock' = p
            /\ UNCHANGED dexit
       ELSE /\ dpc' = [dpc EXCEPT ![p] = "off"]
            /\ dexit' = [dexit EXCEPT ![p] = "locked"]
            /\ flock' = ProcessExit(flock, p)
            /\ sock' = 0

\* lockFile: os.OpenFile fails, or the flock is tried without waiting.
LockFile(p) ==
    /\ dpc[p] = "lockFile"
    /\ \/ Fatal(p, "lock file error")
       \/ /\ lockFile(flock, p).ok
          /\ flock' = lockFile(flock, p).flock
          /\ dpc' = [dpc EXCEPT ![p] = "listen"]
          /\ UNCHANGED <<dexit, sock>>
       \/ /\ ~lockFile(flock, p).ok
          /\ Fatal(p, "locked")
    /\ UNCHANGED touched

\* handler.listen: os.RemoveAll fails and nothing is removed; or the socket
\* file is removed and net.Listen fails; or the socket file is removed, a
\* new one is bound and the goroutine that serves the queries is started.
Listen(p) ==
    /\ dpc[p] = "listen"
    /\ \/ /\ Fatal(p, "listen error")
          /\ UNCHANGED touched
       \/ /\ dpc' = [dpc EXCEPT ![p] = "off"]
          /\ dexit' = [dexit EXCEPT ![p] = "listen error"]
          /\ flock' = ProcessExit(flock, p)
          /\ sock' = 0
          /\ touched' = touched \cup {p}
       \/ /\ sock' = p
          /\ dpc' = [dpc EXCEPT ![p] = "subscribe"]
          /\ touched' = touched \cup {p}
          /\ UNCHANGED <<dexit, flock>>

\* sway.Subscribe returns an error, or http.Serve returns in its goroutine.
DaemonFatal(p) ==
    /\ dpc[p] = "subscribe"
    /\ \E why \in {"subscription error", "serve error"} : Fatal(p, why)
    /\ UNCHANGED touched

\* sway.Subscribe returns nil and cmdDaemon returns, or Window panics under
\* sway.Subscribe (the cap of all() in verbose mode): the deferred unlock
\* runs and the process ends.
DaemonReturn(p) ==
    /\ dpc[p] = "subscribe"
    /\ dpc' = [dpc EXCEPT ![p] = "off"]
    /\ \E how \in {"returned", "panic"} : dexit' = [dexit EXCEPT ![p] = how]
    /\ flock' = ProcessExit(unlock(flock, p), p)
    /\ sock' = IF sock = p THEN 0 ELSE sock
    /\ UNCHANGED touched

InitLock ==
    /\ InitList
    /\ InitDaemon
    /\ verbose = FALSE
    /\ InitProcs
    /\ focusApp = <<>>
    /\ cin = <<>>
    /\ cout = <<>>

lockRest == <<focusApp, cin, cout>>

NextLock ==
    \/ \E p \in Procs : DaemonStart(p) /\ UNCHANGED <<listVars, daemonVars, lockRest>>
    \/ \E p \in Procs : LockFile(p) /\ UNCHANGED <<listVars, daemonVars, lockRest>>
    \/ \E p \in Procs : Listen(p) /\ UNCHANGED <<listVars, daemonVars, lockRest>>
    \/ \E p \in Procs : DaemonFatal(p) /\ UNCHANGED <<listVars, daemonVars, lockRest>>
    \/ \E p \in Procs : DaemonReturn(p) /\ UNCHANGED <<listVars, daemonVars, lockRest>>

SpecLock == InitLock /\ [][NextLock]_vars

\* ------------------------------------------------- the event listener

\* The window events sway delivers: a change kind, the container's id and
\* its app_id, which may be nil or empty.
WindowEvents ==
    [kind : {"focus", "close", "title"}, id : WinIds,
     appID : {NilStr, Ptr(""), Ptr("a")}]

\* No focus event has named the id.
NoFocus == [seen |-> FALSE, app |-> NilStr]

InitEvents ==
    /\ InitList
    /\ InitDaemon
    /\ focusApp = [id \in WinIds |-> NoFocus]
    /\ dpc = <<"subscribe">>
    /\ dexit = <<"none">>
    /\ flock = 1
    /\ sock = 1
    /\ touched = {1}
    /\ cin = <<>>
    /\ cout = <<>>

\* Window for the event e, from h.mu.Lock() to the deferred Unlock, when no
\* query holds the mutex.
HandleEvent(e) ==
    /\ daemon = "running"
    /\ mu = 0
    /\ ev = NoEvent
    /\ before' = list
    /\ call' = [op |-> e.kind, id |-> e.id, appID |-> e.appID, was |-> Was(e.id)]
    /\ list' = Collect(Window(list, e), {})
    /\ live' = IF e.kind = "focus" THEN live \cup {e.id}
               ELSE IF e.kind = "close" THEN live \ {e.id} ELSE live
    /\ gone' = IF e.kind = "focus" THEN gone \ {e.id}
               ELSE IF e.kind = "close" /\ e.id \in live THEN gone \cup {e.id}
               ELSE gone
    /\ abs' = IF e.kind = "focus" THEN absBringFront(abs, e.id)
              ELSE IF e.kind = "close" THEN absDelete(abs, e.id) ELSE abs
    /\ focusApp' = IF e.kind = "focus" THEN [focusApp EXCEPT ![e.id] = [seen |-> TRUE, app |-> e.appID]]
                   ELSE focusApp
    /\ ret' = NoRet
    /\ daemon' = IF /\ e.kind \in {"focus", "close"}
                    /\ verbose
                    /\ all(Window(list, e)).panicked
                 THEN "crashed" ELSE "running"
    /\ UNCHANGED <<mu, verbose, ev, qpc, qst, nodes, resp, hist, taken>>

\* A query served between two events: handle takes the mutex and calls all().
Snapshot ==
    /\ daemon = "running"
    /\ mu = 0
    /\ CallAll
    /\ UNCHANGED <<daemonVars, focusApp>>

NextEvents ==
    \/ \E e \in WindowEvents : HandleEvent(e) /\ UNCHANGED <<procVars, cliVars>>
    \/ Snapshot /\ UNCHANGED <<procVars, cliVars>>

SpecEvents == InitEvents /\ [][NextEvents]_vars

\* ------------------------------------------------- the focus command

\* The con_ids of the nodes of a sway tree.
NodeIds == 1..MaxNode

\* The sequences of at most n distinct node ids.
DistinctIds(n) ==
    UNION { { s \in [1..k -> NodeIds] : \A i, j \in 1..k : i # j => s[i] # s[j] } :
            k \in 0..n }

\* The MRU lists the daemon may answer with: records of distinct ids.
MRULists ==
    { [i \in 1..Len(s) |-> [ID |-> s[i], AppID |-> "a"]] :
        s \in DistinctIds(MaxNode - 1) }

\* The lists of nodes treeSelect may return to focusExisting, in tree order:
\* distinct nodes, each visible or not.
MatchLists ==
    UNION { { [i \in 1..k |-> [ID |-> s[i], Visible |-> v[i]]] :
                s \in { t \in DistinctIds(MaxNode - 1) : Len(t) = k },
                v \in [1..k -> BOOLEAN] } :
            k \in 0..(MaxNode - 1) }

\* Go's last index of the id in the MRU list, counted from 0.
LastIdx(mruList, id) ==
    CHOOSE i \in 1..Len(mruList) :
        /\ mruList[i].ID = id
        /\ \A j \in (i + 1)..Len(mruList) : mruList[j].ID # id

\* cmdFocus: for i, w := range mruList { idToMRUIdx[w.ID] = i }.
idToMRUIdx(mruList) ==
    [id \in { mruList[i].ID : i \in 1..Len(mruList) } |->
        LastIdx(mruList, id) - 1]

\* The less function with the test of ok0 != ok1 left out, an absent id
\* counting with the zero value of the map.
less_NoPresence(idx, n0, n1) ==
    IF n0.Visible # n1.Visible THEN n0.Visible
    ELSE LET i0 == IF n0.ID \in DOMAIN idx THEN idx[n0.ID] ELSE 0
             i1 == IF n1.ID \in DOMAIN idx THEN idx[n1.ID] ELSE 0
         IN i0 < i1

\* The less function focusExisting sorts with.
less(idx, n0, n1) ==
    IF n0.Visible # n1.Visible THEN n0.Visible
    ELSE LET ok0 == n0.ID \in DOMAIN idx
             ok1 == n1.ID \in DOMAIN idx
         IN IF ok0 # ok1 THEN ok0
            ELSE IF ~ok0 THEN FALSE
            ELSE idx[n0.ID] < idx[n1.ID]

Swap(s, i, j) == [s EXCEPT ![i] = s[j], ![j] = s[i]]

\* slices.SortStableFunc on a slice of at most 20 elements is an insertion
\* sort: the element at j moves down while it is less than the one before.
RECURSIVE InsertDown(_, _, _)
InsertDown(idx, s, j) ==
    IF j > 1 /\ less(idx, s[j], s[j - 1])
    THEN InsertDown(idx, Swap(s, j, j - 1), j - 1)
    ELSE s

RECURSIVE SortFrom(_, _, _)
SortFrom(idx, s, i) ==
    IF i > Len(s) THEN s ELSE SortFrom(idx, InsertDown(idx, s, i), i + 1)

SortStableFunc(idx, s) == SortFrom(idx, s, 2)

\* Nothing has run.
NoOut == [done |-> FALSE]

\* focusExisting on the matches of the tree: false when there is none, else
\* the focus command for the first match of the sorted slice.
focusExisting(matches, idx) ==
    IF Len(matches) = 0
    THEN [done |-> TRUE, ok |-> FALSE, cmd |-> 0, sorted |-> <<>>]
    ELSE LET sorted == SortStableFunc(idx, matches)
         IN [done |-> TRUE, ok |-> TRUE, cmd |-> sorted[1].ID,
             sorted |-> sorted]

InitIdle ==
    /\ InitList
    /\ InitDaemon
    /\ verbose = FALSE
    /\ focusApp = <<>>
    /\ dpc = <<"subscribe">>
    /\ dexit = <<"none">>
    /\ flock = 1
    /\ sock = 1
    /\ touched = {1}

InitFocus ==
    /\ InitIdle
    /\ cin \in [matches : MatchLists, mru : MRULists]
    /\ cout = NoOut

\* cmdFocus from the answer of the daemon to the end of focusExisting.
CmdFocus ==
    /\ ~cout.done
    /\ cout' = focusExisting(cin.matches, idToMRUIdx(cin.mru))
    /\ UNCHANGED <<cin, listVars, daemonVars, focusApp, procVars>>

NextFocus == CmdFocus

SpecFocus == InitFocus /\ [][NextFocus]_vars

\* ------------------------------------------------- the sway tree

\* The shapes of the trees of n nodes: node 1 is the root, every other node
\* i hangs under an earlier node parent[i], in its FloatingNodes when
\* floating[i] and in its Nodes otherwise; the children of a list are in
\* the order of their numbers.
Shapes(n) ==
    { [n |-> n, parent |-> p, floating |-> f] :
        p \in { q \in [1..n -> 0..n] :
                  \A i \in 1..n : IF i = 1 THEN q[i] = 0
                                  ELSE q[i] \in 1..(i - 1) },
        f \in { g \in [1..n -> BOOLEAN] : ~g[1] } }

Trees == UNION { Shapes(n) : n \in 1..MaxNode }

\* The numbers of S in increasing order.
RECURSIVE Ascending(_)
Ascending(S) ==
    IF S = {} THEN <<>>
    ELSE LET m == CHOOSE x \in S : \A y \in S : x <= y
         IN <<m>> \o Ascending(S \ {m})

\* node.FloatingNodes and node.Nodes.
FloatingNodes(t, x) ==
    Ascending({ i \in 1..t.n : t.parent[i] = x /\ t.floating[i] })

Nodes(t, x) ==
    Ascending({ i \in 1..t.n : t.parent[i] = x /\ ~t.floating[i] })

\* walkTree that leaves out the floating children.
RECURSIVE walkTree_NoFloating(_, _)
RECURSIVE WalkEachNoFloating(_, _)
walkTree_NoFloating(t, x) == <<x>> \o WalkEachNoFloating(t, Nodes(t, x))

WalkEachNoFloating(t, s) ==
    IF s = <<>> THEN <<>>
    ELSE walkTree_NoFloating(t, Head(s)) \o WalkEachNoFloating(t, Tail(s))

\* walkTree that walks the tiled children before the floating ones.
RECURSIVE walkTree_TiledFirst(_, _)
RECURSIVE WalkEachTiledFirst(_, _)
walkTree_TiledFirst(t, x) ==
    <<x>> \o WalkEachTiledFirst(t, Nodes(t, x))
          \o WalkEachTiledFirst(t, FloatingNodes(t, x))

WalkEachTiledFirst(t, s) ==
    IF s = <<>> THEN <<>>
    ELSE walkTree_TiledFirst(t, Head(s)) \o WalkEachTiledFirst(t, Tail(s))

\* walkTree: the nodes in the order in which fn is called on them: the node,
\* then the walk of each of its FloatingNodes, then of each of its Nodes.
RECURSIVE walkTree(_, _)
RECURSIVE WalkEach(_, _)
walkTree(t, x) ==
    <<x>> \o WalkEach(t, FloatingNodes(t, x)) \o WalkEach(t, Nodes(t, x))

\* The loops of walkTree over a list of children.
WalkEach(t, s) ==
    IF s = <<>> THEN <<>>
    ELSE walkTree(t, Head(s)) \o WalkEach(t, Tail(s))

\* treeSelect: the nodes of the walk for which fn is true, fn given as the
\* set of the nodes it is true of.
treeSelect(t, fn) == SelectSeq(walkTree(t, 1), LAMBDA x : x \in fn)

InitTree ==
    /\ InitIdle
    /\ \E t \in Trees :
           cin \in [tree : {t}, fn : SUBSET (1..t.n)]
    /\ cout = NoOut

\* A call of treeSelect(root, fn).
TreeSelect ==
    /\ ~cout.done
    /\ cout' = [done |-> TRUE, calls |-> walkTree(cin.tree, 1),
                nodes |-> treeSelect(cin.tree, cin.fn)]
    /\ UNCHANGED <<cin, listVars, daemonVars, focusApp, procVars>>

NextTree == TreeSelect

SpecTree == InitTree /\ [][NextTree]_vars

\* ------------------------------------------------- the appnext command

\* The trees with an app_id (nil, "a" or "b") on every node and at most one
\* focused node (0: none).
AppTrees ==
    UNION { [tree : {t}, appID : [1..t.n -> {NilStr, Ptr("a"), Ptr("b")}],
             focused : 0..t.n] : t \in Trees }

\* root.FocusedNode(): the node whose Focused is set, nil when there is none.
FocusedNode(in) == in.focused

\* slices.IndexFunc(matches, func(n) bool { return n == focused }), from 0.
IndexFunc(matches, focused) ==
    IF \E k \in 1..Len(matches) : matches[k] = focused
    THEN (CHOOSE k \in 1..Len(matches) :
              /\ matches[k] = focused
              /\ \A h \in 1..(k - 1) : matches[h] # focused) - 1
    ELSE -1

\* An index that stays at the last match instead of wrapping around.
NextIndex_Clamp(i, n) == IF i + 1 < n THEN i + 1 ELSE i

\* j := (i + 1) % len(matches).
NextIndex(i, n) == (i + 1) % n

\* A test that lets a single match through.
TooFew_One(matches) == Len(matches) < 1

\* len(matches) < 2: cmdAppNext has nothing to do.
TooFew(matches) == Len(matches) < 2

Out(exit, msg, cmd) == [done |-> TRUE, exit |-> exit, msg |-> msg, cmd |-> cmd]

\* cmdAppNext on the tree GetTree returned; err: runCommand fails.
cmdAppNext(in, err) ==
    LET focused == FocusedNode(in)
    IN IF focused = NIL THEN Out("fatal", "No focused node", 0)
       ELSE IF in.appID[focused].isNil
       THEN Out("fatal", "Focused node is not a container with an app ID", 0)
       ELSE
         LET matches ==
                 treeSelect(in.tree,
                            { x \in 1..in.tree.n :
                                /\ ~in.appID[x].isNil
                                /\ in.appID[x].val = in.appID[focused].val })
             i == IndexFunc(matches, focused)
         IN IF TooFew(matches) THEN Out("ok", "", 0)
            ELSE IF i < 0 THEN Out("fatal", "Inconsistent tree?", 0)
            ELSE IF err
            THEN Out("fatal", "Error running command",
                     matches[NextIndex(i, Len(matches)) + 1])
            ELSE Out("ok", "", matches[NextIndex(i, Len(matches)) + 1])

InitAppNext ==
    /\ InitIdle
    /\ cin \in AppTrees
    /\ cout = NoOut

CmdAppNext ==
    /\ ~cout.done
    /\ \E err \in BOOLEAN : cout' = cmdAppNext(cin, err)
    /\ UNCHANGED <<cin, listVars, daemonVars, focusApp, procVars>>

NextAppNext == CmdAppNext

SpecAppNext == InitAppNext /\ [][NextAppNext]_vars

\* ------------------------------------------------- the prev command

\* json.NewDecoder(resp.Body).Decode(&mruList): null gives the nil slice.
Decode(body) == IF body.null THEN <<>> ELSE body.items

\* The loop of cmdPrev that takes every entry, the focused one too.
RECURSIVE PrevLoop_NoSkip(_, _, _)
PrevLoop_NoSkip(mruList, i, focused) ==
    IF i > Len(mruList) THEN 0 ELSE i

\* The loop of cmdPrev that goes on to the last entry whose ID is not the
\* focused node's.
PrevLoop_Last(mruList, i, focused) ==
    LET others == { k \in i..Len(mruList) : mruList[k].ID # focused }
    IN IF others = {} THEN 0
       ELSE CHOOSE k \in others : \A h \in others : h <= k

\* The loop of cmdPrev from the entry i: the first entry whose ID is not the
\* focused node's, 0 when the loop ends without one.
RECURSIVE PrevLoop(_, _, _)
PrevLoop(mruList, i, focused) ==
    IF i > Len(mruList) THEN 0
    ELSE IF mruList[i].ID = focused THEN PrevLoop(mruList, i + 1, focused)
    ELSE i

\* cmdPrev on the answer of the daemon and the focused node of the tree
\* (NIL: none); err: runCommand fails.
cmdPrev(body, focused, err) ==
    LET mruList == Decode(body)
        k == PrevLoop(mruList, 1, focused)
    IN IF focused = NIL THEN Out("fatal", "No focused node", 0)
       ELSE IF k = 0 THEN Out("ok", "No other window to focus", 0)
       ELSE IF err THEN Out("fatal", "Error running command", mruList[k].ID)
       ELSE Out("ok", "", mruList[k].ID)

\* The daemon answers with the encoding of a snapshot of its list.
InitPrev ==
    /\ InitIdle
    /\ \E ns \in MRULists :
           cin \in [snapshot : {ns}, body : {Encode(ns)},
                    focused : {NIL} \cup NodeIds]
    /\ cout = NoOut

CmdPrev ==
    /\ ~cout.done
    /\ \E err \in BOOLEAN : cout' = cmdPrev(cin.body, cin.focused, err)
    /\ UNCHANGED <<cin, listVars, daemonVars, focusApp, procVars>>

NextPrev == CmdPrev

SpecPrev == InitPrev /\ [][NextPrev]_vars

\* ------------------------------------------------- prev against the daemon

\* The window events of sway for the windows Ids, each of the app "a".
SwayEvents ==
    { [kind |-> k, id |-> id, appID |-> Ptr("a")] :
        k \in {"focus", "close", "title"}, id \in Ids }

\* No prev has run.
NoRuns == [n |-> 0, ok |-> TRUE, last |-> NoOut]

\* cin.focused is the window sway has focused (NIL: none); cin.start is the
\* MRU list and the focused window at the first run of prev.
InitToggle ==
    /\ InitList
    /\ InitDaemon
    /\ focusApp = <<>>
    /\ dpc = <<"subscribe">>
    /\ dexit = <<"none">>
    /\ flock = 1
    /\ sock = 1
    /\ touched = {1}
    /\ cin = [focused |-> NIL, start |-> [mru |-> <<>>, focused |-> NIL]]
    /\ cout = NoRuns

\* Before the first prev, sway focuses, closes or retitles a window and
\* sends the event to the daemon: a focus event names the window that now
\* has the focus, and a closed window has it no longer.
SwayEvent(e) ==
    /\ cout.n = 0
    /\ Arrive(e)
    /\ cin' = [cin EXCEPT !.focused =
                  IF e.kind = "focus" THEN e.id
                  ELSE IF e.kind = "close" /\ @ = e.id THEN NIL
                  ELSE @]
    /\ UNCHANGED <<cout, focusApp, procVars>>

\* The answer of the daemon to the query of prev: the encoded snapshot, or
\* no answer when all() panics in the handler.
Answer(l) ==
    IF all(l).panicked THEN NoResp ELSE Encode(all(l).nodes)

\* A run of `swayctrl prev` once the daemon has applied the events sent so
\* far: it queries the daemon, reads the focused node of the tree and runs
\* the focus command, upon which sway focuses that window and sends the
\* focus event; err: runCommand fails and the focus stays.
PrevRun ==
    /\ daemon = "running"
    /\ ev = NoEvent
    /\ mu = 0
    /\ cout.n < MaxPrev
    /\ \E err \in BOOLEAN :
         LET body == Answer(list)
             out == IF ~body.written
                    THEN Out("fatal", "Error contacting daemon", 0)
                    ELSE cmdPrev(body, cin.focused, err)
             moved == out.exit = "ok" /\ out.cmd # 0
         IN /\ cout' = [n |-> cout.n + 1, ok |-> cout.ok /\ out.exit = "ok",
                        last |-> out]
            /\ cin' = [focused |-> IF moved THEN out.cmd ELSE cin.focused,
                       start |-> IF cout.n = 0
                                 THEN [mru |-> Contents(list),
                                       focused |-> cin.focused]
                                 ELSE cin.start]
            /\ ev' = IF moved
                     THEN [kind |-> "focus", id |-> out.cmd, appID |-> Ptr("a")]
                     ELSE NoEvent
    /\ UNCHANGED <<listVars, mu, verbose, daemon, qpc, qst, nodes, resp,
                   hist, taken, focusApp, procVars>>

NextToggle ==
    \/ \E e \in SwayEvents : SwayEvent(e)
    \/ WindowBody /\ UNCHANGED <<focusApp, procVars, cliVars>>
    \/ PrevRun

SpecToggle == InitToggle /\ [][NextToggle]_vars

\* ------------------------------------------------- appnext, run after run

\* No appnext has run.
NoCycle == [n |-> 0, ok |-> TRUE, from |-> NIL, seq |-> <<>>, last |-> NoOut]

\* A tree of fewer than MaxNode nodes that stays as it is but for the focus,
\* which is on cin.focused and was on cin.start before the first run.
InitCycle ==
    /\ InitIdle
    /\ \E in \in { a \in AppTrees : a.tree.n < MaxNode } :
           cin = [tree |-> in.tree, appID |-> in.appID,
                  focused |-> in.focused, start |-> in.focused]
    /\ cout = NoCycle

\* A run of `swayctrl appnext` on the tree as the runs before have left it:
\* sway moves the focus to the node of a focus command that succeeds; err:
\* runCommand fails. A failed run ends the series.
AppNextRun ==
    /\ cout.ok
    /\ cout.n < cin.tree.n
    /\ \E err \in BOOLEAN :
         LET out == cmdAppNext(cin, err)
             moved == out.exit = "ok" /\ out.cmd # 0
         IN /\ cout' = [n |-> cout.n + 1, ok |-> out.exit = "ok",
                        from |-> cin.focused,
                        seq |-> IF moved THEN Append(cout.seq, out.cmd)
                                ELSE cout.seq,
                        last |-> out]
            /\ cin' = [cin EXCEPT !.focused = IF moved THEN out.cmd ELSE @]
    /\ UNCHANGED <<listVars, daemonVars, focusApp, procVars>>

NextCycle == AppNextRun

SpecCycle == InitCycle /\ [][NextCycle]_vars

\* --------------------------------------------------------------- claims

\* C1: after any sequence of bringFront and delete calls on an empty list,
\* all() returns each id at most once and exactly the ids brought to front
\* and not deleted afterwards.
C1_AllReturnsLiveSet ==
    call.op = "all" =>
        /\ ~ret.panicked
        /\ NoDup(SeqIds(ret.nodes))
        /\ Range(SeqIds(ret.nodes)) = live

\* C2: after any sequence of bringFront and delete calls, all() lists the
\* live ids most recently focused first: it equals the abstract sequence in
\* which bringFront removes the id and prepends it and delete removes it.
C2_AllEqualsAbstractSequence ==
    call.op = "all" => ~ret.panicked /\ SeqIds(ret.nodes) = abs

\* C3: bringFront on an id that is in the list but not at its head moves it
\* to the head and keeps the relative order of all the other ids.
C3_BringFrontMovesToHead ==
    (/\ call.op = "bringFront"
     /\ call.id \in Range(Order(before))
     /\ Order(before)[1] # call.id)
    => Order(list) = <<call.id>> \o Without(Order(before), call.id)

\* C3 witness: an id in the middle of a three-element list was brought front.
C3_Witness ==
    /\ call.op = "bringFront"
    /\ Len(Order(before)) = 3
    /\ Order(before)[2] = call.id
    /\ Order(list) = <<call.id, Order(before)[1], Order(before)[3]>>

\* C4: bringFront on the id already at the head leaves the order of the list
\* and the key set of the index unchanged (so repeating it changes nothing).
C4_BringFrontHeadKeepsOrder ==
    (/\ call.op = "bringFront"
     /\ Len(Order(before)) > 0
     /\ Order(before)[1] = call.id)
    => /\ Order(list) = Order(before)
       /\ DOMAIN list.m = DOMAIN before.m
       /\ list.head = before.head

\* C4 witness: the head of a list of several elements was brought front.
C4_Witness ==
    /\ call.op = "bringFront"
    /\ Len(Order(before)) >= 2
    /\ Order(before)[1] = call.id
    /\ Order(list) = Order(before)

\* C5: bringFront on an id that was deleted before re-inserts it as if it
\* had never been in the list: once, at the head, with the new app id, the
\* other ids keeping their order, and its links are those of a head element.
C5_ReinsertAfterDelete ==
    (call.op = "bringFront" /\ call.was = "deleted")
    => /\ Order(list) = <<call.id>> \o Order(before)
       /\ call.id \notin Range(Order(before))
       /\ Content(list)[1] = [ID |-> call.id, AppID |-> call.appID]
       /\ list.elts[list.head].prev = NIL
       /\ list.elts[list.head].next = before.head

\* C5 witness: a deleted id was brought front again, with an app id other
\* than "?", onto a list that holds other ids.
C5_Witness ==
    /\ call.op = "bringFront"
    /\ call.was = "deleted"
    /\ call.appID = "a"
    /\ Len(Order(before)) >= 2
    /\ Order(list)[1] = call.id

\* C6: delete on an id that is not in the list leaves the head, every link
\* and the index unchanged, also on the empty list and for a deleted id.
C6_DeleteAbsentIsNoOp ==
    (call.op = "delete" /\ call.was # "live") => list = before

\* C6 witness: delete named an id that had been deleted before, on a list
\* that still holds other ids.
C6_Witness ==
    /\ call.op = "delete"
    /\ call.was = "deleted"
    /\ Len(Order(before)) >= 1
    /\ list = before

\* C7: the index and the linked sequence agree: the ids met from head are
\* pairwise distinct and are the keys of the index, each key leading to its
\* own element; the chain is finite; head.prev is nil; e.next.prev is e.
C7_IndexAndChainAgree ==
    /\ EndsInNil(list)
    /\ NoDup(Order(list))
    /\ Range(Order(list)) = DOMAIN list.m
    /\ \A id \in DOMAIN list.m :
         /\ list.m[id] \in Range(Chain(list))
         /\ list.elts[list.m[id]].id = id
    /\ list.head # NIL => list.elts[list.head].prev = NIL
    /\ \A e \in Range(Chain(list)) :
         list.elts[e].next # NIL => list.elts[list.elts[e].next].prev = e

\* C7 witness: a list of several elements reached through an unlink from
\* the middle.
C7_Witness ==
    /\ call.op = "delete"
    /\ call.was = "live"
    /\ Len(Order(before)) = 3
    /\ Order(before)[2] = call.id
    /\ Len(Order(list)) = 2

\* C8: a query never returns a torn snapshot: the sequence a handler sends
\* is the whole list as it was at some moment of its all() call, before or
\* after each event applied meanwhile.
C8_NoTornSnapshot ==
    \A h \in Handlers :
        qpc[h] = "sent" => \E c \in hist[h] : resp[h] = Encode(c)

\* C8 witness: a response of two records was sent, and an event has changed
\* the list since the snapshot was taken.
C8_Witness ==
    \E h \in Handlers :
        /\ qpc[h] = "sent"
        /\ Len(resp[h].items) = 2
        /\ Contents(list) # resp[h].items

\* C9: every acquisition of the mutex by a query handler is followed by its
\* release, so that queries never block the event listener for ever: the
\* handler that holds the mutex is always still on its way to h.mu.Unlock(),
\* in the loop of all() or at the Unlock itself, never a handler that ended.
C9_QueriesNeverBlockEvents ==
    \A h \in Handlers : mu = h => qpc[h] \in {"all", "unlock"}

\* C10: a handler that is serializing or sending its response does not hold
\* the mutex, and what it sends is the list as it was when it released the
\* mutex, whatever events came later.
C10_NoLockDuringIO ==
    \A h \in Handlers :
        /\ qpc[h] \in {"encode", "sent"} => mu # h
        /\ qpc[h] = "sent" => resp[h] = Encode(taken[h])

\* C10 witness: a handler is about to serialize a snapshot of two records
\* while an event that arrived after the release has changed the list.
C10_Witness ==
    \E h \in Handlers :
        /\ qpc[h] = "encode"
        /\ Len(nodes[h]) = 2
        /\ mu = 0
        /\ Contents(list) # nodes[h]

\* C11: bringFront, delete and all never panic on a list reached by any
\* sequence of bringFront and delete calls, however many entries it has (more
\* than 100 live ids included), and all() then returns every linked record.
C11_AllNeverPanics ==
    /\ ~ret.panicked
    /\ call.op = "all" =>
           /\ Len(ret.nodes) = Cardinality(DOMAIN before.m)
           /\ ret.nodes = Contents(before)

\* C12: at any time at most one daemon instance holds the lock and runs the
\* event listener and the query server, and a start attempted while another
\* instance holds the lock does not wait: its lockFile step is enabled and it
\* ends the process with the "another instance running" failure.
C12_SingleInstance ==
    /\ Cardinality({ p \in Procs : dpc[p] \in {"listen", "subscribe"} }) <= 1
    /\ \A p \in Procs : dpc[p] \in {"listen", "subscribe"} => flock = p
    /\ sock # 0 => flock = sock /\ dpc[sock] = "subscribe"
    /\ \A p \in Procs :
           dpc[p] = "lockFile" /\ flock \notin {0, p} =>
               /\ ENABLED (Fatal(p, "locked") /\ ~lockFile(flock, p).ok)
               /\ ~lockFile(flock, p).ok
    /\ \A p \in Procs : dexit[p] = "locked" => dpc[p] = "off" /\ flock # p

\* A second start has ended with the failure while the first instance still
\* holds the lock and serves.
C12_Witness ==
    \E p, q \in Procs :
        /\ p # q
        /\ dpc[p] = "subscribe" /\ flock = p /\ sock = p
        /\ dpc[q] = "off" /\ dexit[q] = "locked"

\* C13: once a daemon that acquired the lock has terminated, by returning
\* from cmdDaemon or on any fatal path, it holds the lock no longer, so that
\* a start attempted when no other instance runs finds the lock free.
C13_LockReleasedOnExit ==
    /\ \A p \in Procs : dpc[p] \in {"off", "lockFile"} => flock # p
    /\ (\A p \in Procs : dpc[p] \in {"off", "lockFile"}) => flock = 0

\* An instance holds the lock that it took after another one, which had
\* held it, ended on a fatal path or returned.
C13_Witness ==
    \E p, q \in Procs :
        /\ p # q
        /\ dpc[p] = "off"
        /\ dexit[p] \in {"listen error", "subscription error",
                          "serve error", "returned", "panic"}
        /\ flock = q /\ dpc[q] \in {"listen", "subscribe"}

\* The app id Window stores for the app_id of a focus event.
StoredAppID(p) == IF p.isNil \/ p.val = "" THEN "?" ELSE p.val

\* The records of ns but the one of id.
WithoutID(ns, id) == SelectSeq(ns, LAMBDA r : r.ID # id)

\* The ids the index holds are those of the linked records.
IndexOf(l) == DOMAIN l.m

\* C14: the list changes only through window events, and exactly so: a focus
\* event does bringFront(container id, app id), which puts the record of the
\* id first and keeps the others in order; a close event does delete(container
\* id), which removes the record of the id; an event of any other kind and a
\* query leave the list and its index unchanged.
C14_ListChangesOnlyByEvents ==
    /\ call.op = "focus" =>
           /\ Contents(list) =
                  <<[ID |-> call.id, AppID |-> StoredAppID(call.appID)]>>
                  \o WithoutID(Contents(before), call.id)
           /\ IndexOf(list) = IndexOf(before) \cup {call.id}
    /\ call.op = "close" =>
           /\ Contents(list) = WithoutID(Contents(before), call.id)
           /\ IndexOf(list) = IndexOf(before) \ {call.id}
    /\ call.op \notin {"focus", "close"} => list = before

\* An event of another kind has been handled for a window of a list of two,
\* and a focus and a close event have each changed such a list.
C14_Witness ==
    /\ call.op = "title"
    /\ call.id \in IndexOf(before)
    /\ Len(Contents(before)) = 2
    /\ list = before

\* C19: after any sequence of focus and close events, the AppID a snapshot
\* reports for each live id is the app id of the latest focus event for that
\* id (also when the id was at the head already, and when it was closed and
\* focused anew), with "?" when that event's app id was absent or empty.
C19_AppIDOfLatestFocus ==
    ~all(list).panicked =>
        /\ \A id \in live : \E i \in 1..Len(all(list).nodes) :
               all(list).nodes[i].ID = id
        /\ \A i \in 1..Len(all(list).nodes) :
               LET r == all(list).nodes[i]
               IN /\ focusApp[r.ID].seen
                  /\ r.AppID = StoredAppID(focusApp[r.ID].app)

\* The head of the list, stored with the app id "a", got a focus event without
\* app id, and the snapshot now reports "?" for it.
C19_Witness ==
    /\ call.op = "focus"
    /\ before.head # NIL
    /\ Contents(before)[1] = [ID |-> call.id, AppID |-> "a"]
    /\ call.appID = NilStr
    /\ ~all(list).panicked
    /\ all(list).nodes[1] = [ID |-> call.id, AppID |-> "?"]
    /\ Len(all(list).nodes) = 2

\* The position of the id in the MRU list, 0 when it is absent.
MRUPos(mru, id) ==
    IF \E i \in 1..Len(mru) : mru[i].ID = id
    THEN CHOOSE i \in 1..Len(mru) : mru[i].ID = id
    ELSE 0

\* The stated order: visible before non-visible; of equal visibility, in the
\* MRU list before absent from it; of two in the list, the one nearer its
\* front.
RanksBefore(mru, a, b) ==
    \/ a.Visible /\ ~b.Visible
    \/ /\ a.Visible = b.Visible
       /\ \/ MRUPos(mru, a.ID) > 0 /\ MRUPos(mru, b.ID) = 0
          \/ /\ MRUPos(mru, a.ID) > 0
             /\ MRUPos(mru, b.ID) > 0
             /\ MRUPos(mru, a.ID) < MRUPos(mru, b.ID)

\* The place of the node in the tree order of the matches.
TreePos(matches, n) == CHOOSE i \in 1..Len(matches) : matches[i] = n

\* C15: for any non-empty list of matches in tree order and any MRU index,
\* focusExisting focuses the match that is first in the stable order: visible
\* before non-visible, then present in the MRU index before absent, then the
\* smaller MRU position, remaining ties in tree order; the sorted slice is
\* the matches in that order.
C15_FocusFirstInStableOrder ==
    cout.done /\ Len(cin.matches) > 0 =>
        LET m == cin.matches
            s == cout.sorted
        IN /\ cout.ok
           /\ Len(s) = Len(m)
           /\ Range(s) = Range(m)
           /\ \A p, q \in 1..Len(s) :
                  p < q =>
                      \/ RanksBefore(cin.mru, s[p], s[q])
                      \/ /\ ~RanksBefore(cin.mru, s[q], s[p])
                         /\ TreePos(m, s[p]) < TreePos(m, s[q])
           /\ \E k \in 1..Len(m) :
                  /\ cout.cmd = m[k].ID
                  /\ \A j \in 1..Len(m) :
                         /\ ~RanksBefore(cin.mru, m[j], m[k])
                         /\ j < k => RanksBefore(cin.mru, m[k], m[j])

\* The example: [{visible:false, mru:2}, {visible:true, mru:none},
\* {visible:true, mru:0}] is ordered [{visible:true, mru:0}, {visible:true,
\* mru:none}, {visible:false, mru:2}] and the third match is focused.
C15_Witness ==
    /\ cout.done
    /\ cin.matches = <<[ID |-> 1, Visible |-> FALSE],
                       [ID |-> 2, Visible |-> TRUE],
                       [ID |-> 3, Visible |-> TRUE]>>
    /\ SeqIds(cin.mru) = <<3, 4, 1>>
    /\ SeqIds(cout.sorted) = <<3, 2, 1>>
    /\ cout.cmd = 3

\* The proper ancestors of the node x.
RECURSIVE Ancestors(_, _)
Ancestors(t, x) ==
    IF t.parent[x] = 0 THEN {}
    ELSE {t.parent[x]} \cup Ancestors(t, t.parent[x])

\* The child of c on the way down to its descendant x.
ChildToward(t, c, x) ==
    CHOOSE y \in Ancestors(t, x) \cup {x} : t.parent[y] = c

\* The lowest node that is x or y or above both.
Fork(t, x, y) ==
    LET both == (Ancestors(t, x) \cup {x}) \cap (Ancestors(t, y) \cup {y})
    IN CHOOSE c \in both : \A d \in both \ {c} : d \in Ancestors(t, c)

\* Pre-order: a node comes before its descendants; of two nodes in different
\* subtrees of a node, the floating subtree comes before the tiled one, and
\* of two subtrees of the same list the earlier child comes first.
PreOrderBefore(t, x, y) ==
    /\ x # y
    /\ \/ x \in Ancestors(t, y)
       \/ /\ y \notin Ancestors(t, x)
          /\ LET c == Fork(t, x, y)
                 bx == ChildToward(t, c, x)
                 by == ChildToward(t, c, y)
             IN \/ t.floating[bx] /\ ~t.floating[by]
                \/ t.floating[bx] = t.floating[by] /\ bx < by

\* C20: treeSelect returns the nodes that satisfy the predicate in pre-order
\* depth-first order: a node, then its floating children (with all below
\* them), then its tiled children; the predicate is called on every node
\* exactly once, and the result has no duplicate and no omission.
C20_TreeSelectPreOrder ==
    cout.done =>
        LET t == cin.tree
        IN /\ Len(cout.calls) = t.n
           /\ Range(cout.calls) = 1..t.n
           /\ \A p, q \in 1..Len(cout.calls) :
                  p < q => PreOrderBefore(t, cout.calls[p], cout.calls[q])
           /\ NoDup(cout.nodes)
           /\ Range(cout.nodes) = cin.fn
           /\ \A p, q \in 1..Len(cout.nodes) :
                  p < q => PreOrderBefore(t, cout.nodes[p], cout.nodes[q])

\* The root has the tiled child 2 and the floating child 3, which has the
\* child 4: the walk is 1, 3, 4, 2 and the three selected nodes come 3, 4, 2.
C20_Witness ==
    /\ cout.done
    /\ cin.tree.n = 4
    /\ cin.tree.parent = <<0, 1, 1, 3>>
    /\ cin.tree.floating = <<FALSE, FALSE, TRUE, FALSE>>
    /\ cin.fn = {2, 3, 4}
    /\ cout.calls = <<1, 3, 4, 2>>
    /\ cout.nodes = <<3, 4, 2>>

\* C16: prev focuses the first entry of the MRU snapshot, in recency order,
\* whose id is not the focused window's; when the snapshot is empty or holds
\* only the focused window, it issues no focus command and reports that there
\* is no other window, without failing.
C16_PrevFocusesFirstOther ==
    cout.done /\ cin.focused # NIL =>
        LET mru == cin.snapshot
            others == { i \in 1..Len(mru) : mru[i].ID # cin.focused }
        IN IF others # {}
           THEN \E i \in others :
                    /\ \A j \in others : i <= j
                    /\ cout.cmd = mru[i].ID
           ELSE /\ cout.cmd = 0
                /\ cout.exit = "ok"
                /\ cout.msg = "No other window to focus"

\* With the snapshot [W1, W2, W3] and W1 focused, W2 is focused.
C16_Witness ==
    /\ cout.done
    /\ SeqIds(cin.snapshot) = <<1, 2, 3>>
    /\ cin.focused = 1
    /\ cout.cmd = 2
    /\ cout.exit = "ok"

\* The nodes that carry the app id of the focused node.
SameApp(in) ==
    { x \in 1..in.tree.n :
        /\ ~in.appID[x].isNil
        /\ ~in.appID[in.focused].isNil
        /\ in.appID[x].val = in.appID[in.focused].val }

\* C17: when the nodes with the focused node's app id are m0..m(n-1) in tree
\* order, n >= 2, and the focused node is m(i), appnext focuses m((i+1) mod
\* n): the next such node in tree order, or the first one when the focused
\* node is the last.
C17_AppNextFocusesSuccessor ==
    (cout.done /\ cin.focused # NIL /\ Cardinality(SameApp(cin)) >= 2) =>
        LET S == SameApp(cin)
            f == cin.focused
            t == cin.tree
            after == { y \in S : PreOrderBefore(t, f, y) }
        IN /\ cout.cmd \in S
           /\ IF after # {}
              THEN /\ cout.cmd \in after
                   /\ \A z \in after \ {cout.cmd} :
                          PreOrderBefore(t, cout.cmd, z)
              ELSE \A z \in S \ {cout.cmd} : PreOrderBefore(t, cout.cmd, z)

\* With three nodes A, B, C of the app in tree order and C focused, A is
\* focused; the tree has the three as tiled children of the root.
C17_Witness ==
    /\ cout.done
    /\ cin.tree.n = 4
    /\ cin.tree.parent = <<0, 1, 1, 1>>
    /\ cin.tree.floating = <<FALSE, FALSE, FALSE, FALSE>>
    /\ cin.appID = <<NilStr, Ptr("a"), Ptr("a"), Ptr("a")>>
    /\ cin.focused = 4
    /\ cout.cmd = 2
    /\ cout.exit = "ok"

\* C18: with fewer than two nodes of the focused app id, appnext issues no
\* focus command and ends without error.
C18_AppNextAloneDoesNothing ==
    (/\ cout.done
     /\ cin.focused # NIL
     /\ ~cin.appID[cin.focused].isNil
     /\ Cardinality(SameApp(cin)) < 2) =>
        /\ cout.cmd = 0
        /\ cout.exit = "ok"

\* The focused node is the only one of its app among the four of the tree.
C18_Witness ==
    /\ cout.done
    /\ cin.tree.n = 4
    /\ cin.focused = 3
    /\ cin.appID = <<NilStr, Ptr("b"), Ptr("a"), Ptr("b")>>
    /\ cout.cmd = 0
    /\ cout.exit = "ok"

\* C21: a daemon start touches the query socket only after it has acquired
\* the singleton lock: a run that removed or bound the socket file has passed
\* lockFile, a start that failed to acquire the lock has not touched it, and
\* the socket of the daemon that serves stays its own, so that the queries of
\* the CLI keep reaching it.
C21_SocketOnlyAfterLock ==
    /\ \A p \in touched :
           /\ dpc[p] # "lockFile"
           /\ dexit[p] \notin {"locked", "lock file error"}
           /\ dpc[p] # "off" => flock = p
    /\ \A q \in Procs : dpc[q] = "subscribe" => sock = q /\ q \in touched

\* Two starts have failed at the lock without touching the socket, while the
\* daemon that bound the socket still listens at it.
C21_Witness ==
    \E q \in Procs :
        /\ dpc[q] = "subscribe"
        /\ sock = q
        /\ touched = {q}
        /\ \A p \in Procs \ {q} : dpc[p] = "off" /\ dexit[p] = "locked"

\* C22: prev toggles between the two most recent windows: when the MRU list
\* has at least two entries and the focused window is its head, and the
\* daemon has applied the focus event of each focus command before the next
\* prev, with no other event, two consecutive runs of prev bring the focus
\* back to the original window and the MRU list back to its original order.
C22_PrevTwiceRestores ==
    (/\ cout.n = 2
     /\ cout.ok
     /\ ev = NoEvent
     /\ Len(cin.start.mru) >= 2
     /\ cin.start.focused = cin.start.mru[1].ID) =>
        /\ cin.focused = cin.start.focused
        /\ SeqIds(Contents(list)) = SeqIds(cin.start.mru)
        /\ cout.last.cmd = cin.start.focused

\* From the list [1, 2, 3] with the window 1 focused, two runs of prev have
\* focused 2 and then 1 again, and the list is [1, 2, 3] again.
C22_Witness ==
    /\ cout.n = 2
    /\ cout.ok
    /\ ev = NoEvent
    /\ SeqIds(cin.start.mru) = <<1, 2, 3>>
    /\ cin.start.focused = 1
    /\ cout.last.cmd = 1
    /\ cin.focused = 1
    /\ SeqIds(Contents(list)) = <<1, 2, 3>>

\* C23: appnext never selects the node that has the focus; on an unchanged
\* tree with n >= 2 nodes of the focused app id, n consecutive runs, each of
\* which moves the focus to the node it selected, focus each of the n nodes
\* exactly once and end on the starting node; and no run ends with
\* "Inconsistent tree?", the focused node being a node of the tree.
C23_AppNextCycles ==
    /\ cout.n > 0 =>
           /\ cout.last.msg # "Inconsistent tree?"
           /\ cout.last.cmd # 0 => cout.last.cmd # cout.from
    /\ (/\ cout.ok
        /\ cin.focused # NIL
        /\ Cardinality(SameApp(cin)) >= 2
        /\ cout.n = Cardinality(SameApp(cin))) =>
           /\ Len(cout.seq) = cout.n
           /\ NoDup(cout.seq)
           /\ Range(cout.seq) = SameApp(cin)
           /\ cout.seq[cout.n] = cin.start
           /\ cin.focused = cin.start

\* Three nodes of the app "a", the root with the tiled child 2 and the
\* floating child 3, with the node 2 focused at the start: three runs have
\* focused 1, 3 and 2.
C23_Witness ==
    /\ cout.n = 3
    /\ cout.ok
    /\ cin.tree.parent = <<0, 1, 1>>
    /\ cin.tree.floating = <<FALSE, FALSE, TRUE>>
    /\ cin.appID = <<Ptr("a"), Ptr("a"), Ptr("a")>>
    /\ cin.start = 2
    /\ cout.seq = <<1, 3, 2>>
    /\ cin.focused = 2

====
